---------------------------- MODULE Spec2Model ----------------------------
(***************************************************************************)
(* A model of cmdui (src/src/cmdui.rs): the quote-aware tokenizer          *)
(* (CommandLineIterator), the completion engine (CommandCompleter), the    *)
(* command dispatcher of CmdUI::read_commands and the pager                *)
(* (CmdApp::print_columns).                                                *)
(*                                                                         *)
(* Text is modelled by TLA+ strings over small alphabets of one-byte       *)
(* characters; positions are the 0-based byte offsets of the Rust code.    *)
(***************************************************************************)
EXTENDS Integers, Sequences, FiniteSets, TLC

\* ------------------------------------------------------------------ bounds
\* Longest line handed to the tokenizer state machine.
MaxLineLen == 5
\* Longest word and longest word list of the join-and-tokenize inputs.
MaxWordLen == 2
MaxWords == 3
\* Longest line typed into the line editor before completion.
MaxTypedLen == 5
\* Longest line entered at the prompt of read_commands.
MaxEnteredLen == 5
\* Most lines handed to print_columns, largest terminal, most keys read.
MaxLines == 4
MaxTermW == 8
MaxTermH == 3
MaxKeys == 3

\* ------------------------------------------------------------- characters
SPACE == " "
QUOTE == "'"

\* Option::None of find_from / find_from_to (an offset is never negative).
None == -1

\* ---------------------------------------------------------------- helpers
SetMin(S) == CHOOSE x \in S : \A y \in S : x <= y

\* All strings over alphabet A of length <= n.
RECURSIVE StringsUpTo(_, _)
StringsUpTo(A, n) ==
    IF n = 0 THEN {""}
    ELSE LET S == StringsUpTo(A, n - 1)
         IN  S \cup {s \o c : s \in S, c \in A}

\* All sequences over set S of length <= n.
RECURSIVE SeqsUpTo(_, _)
SeqsUpTo(S, n) ==
    IF n = 0 THEN {<<>>}
    ELSE LET T == SeqsUpTo(S, n - 1)
         IN  T \cup {Append(t, x) : t \in T, x \in S}

\* The byte of s at 0-based offset i, as a one-character string.
CharAt(s, i) == SubSeq(s, i + 1, i + 1)

\* str::find(c): whether s contains character c.
Contains(s, c) == \E i \in 0..(Len(s) - 1) : CharAt(s, i) = c

\* str::starts_with(prefix)
StartsWith(s, prefix) ==
    /\ Len(prefix) <= Len(s)
    /\ SubSeq(s, 1, Len(prefix)) = prefix

\* str::ends_with(suffix)
EndsWith(s, suffix) ==
    /\ Len(suffix) <= Len(s)
    /\ SubSeq(s, Len(s) - Len(suffix) + 1, Len(s)) = suffix

\* --------------------------------------------------------------- tokenizer
\* A variant of CommandPart::new that never sets is_quoted.
CommandPart_new_NeverQuoted(slice) ==
    [slice |-> slice, is_quoted |-> FALSE, is_error |-> FALSE]

\* CommandPart::new
CommandPart_new(slice) ==
    [slice |-> slice, is_quoted |-> Contains(slice, SPACE), is_error |-> FALSE]

\* CommandPart::error
CommandPart_error(slice) ==
    [slice |-> slice, is_quoted |-> FALSE, is_error |-> TRUE]

\* CommandPart::to_string
to_string(p) ==
    IF p.is_error THEN "Bad_command: " \o p.slice
    ELSE IF p.is_quoted THEN "'" \o p.slice \o "'"
    ELSE p.slice

\* CommandLineIterator::slice(r), r = a..b
slice(l, a, b) == SubSeq(l, a + 1, b)

\* CommandLineIterator::slice_from(r), r = a..
slice_from(l, a) == SubSeq(l, a + 1, Len(l))

\* CommandLineIterator::find_from(start.., c)
find_from(l, start, c) ==
    LET S == {i \in start..(Len(l) - 1) : CharAt(l, i) = c}
    IN  IF S = {} THEN None ELSE SetMin(S)

\* CommandLineIterator::find_from_to(start..end, c)
find_from_to(l, start, end, c) ==
    LET S == {i \in start..(end - 1) : CharAt(l, i) = c}
    IN  IF S = {} THEN None ELSE SetMin(S)

\* CommandLineIterator::char_is
char_is(l, pos, c) == StartsWith(slice_from(l, pos), c)

\* The result of one call of next: the Option<CommandPart> as a sequence of
\* at most one part, and the iterator's position after the call.
Some(p, newpos) == [item |-> <<p>>, position |-> newpos]

\* A variant of EndOfLinePart that yields no empty final part at the end of
\* the line.
EndOfLinePart_NoFinalPart(l, pos) == [item |-> <<>>, position |-> pos + 1]

\* next, pos == len: the empty final part.
EndOfLinePart(l, pos) == Some(CommandPart_new(""), pos + 1)

\* A variant of QuotedPart that, after a closing quote followed by a
\* non-space character, also steps over that character.
QuotedPart_ErrorSkipsChar(l, pos) ==
    LET nextpos == find_from(l, pos + 1, QUOTE)
    IN  IF nextpos # None
        THEN IF nextpos + 1 # Len(l)
             THEN IF char_is(l, nextpos + 1, SPACE)
                  THEN Some(CommandPart_new(slice(l, pos + 1, nextpos)),
                            nextpos + 2)
                  ELSE Some(CommandPart_error(slice(l, pos, nextpos)),
                            nextpos + 2)
             ELSE Some(CommandPart_new(slice(l, pos + 1, nextpos)),
                       nextpos + 2)
        ELSE Some(CommandPart_new(slice_from(l, pos + 1)), Len(l) + 1)

\* A variant of QuotedPart that treats a quote that is never closed as an
\* error.
QuotedPart_UnclosedIsError(l, pos) ==
    LET nextpos == find_from(l, pos + 1, QUOTE)
    IN  IF nextpos # None
        THEN IF nextpos + 1 # Len(l)
             THEN IF char_is(l, nextpos + 1, SPACE)
                  THEN Some(CommandPart_new(slice(l, pos + 1, nextpos)),
                            nextpos + 2)
                  ELSE Some(CommandPart_error(slice(l, pos, nextpos)),
                            nextpos + 1)
             ELSE Some(CommandPart_new(slice(l, pos + 1, nextpos)),
                       nextpos + 2)
        ELSE Some(CommandPart_error(slice_from(l, pos)), Len(l) + 1)

\* next, the quoted branch (the character at pos is a quote).
QuotedPart(l, pos) ==
    LET nextpos == find_from(l, pos + 1, QUOTE)
    IN  IF nextpos # None
        THEN IF nextpos + 1 # Len(l)
             THEN IF char_is(l, nextpos + 1, SPACE)
                  THEN Some(CommandPart_new(slice(l, pos + 1, nextpos)),
                            nextpos + 2)
                  ELSE Some(CommandPart_error(slice(l, pos, nextpos)),
                            nextpos + 1)
             ELSE Some(CommandPart_new(slice(l, pos + 1, nextpos)),
                       nextpos + 2)
        ELSE Some(CommandPart_new(slice_from(l, pos + 1)), Len(l) + 1)

\* The first offset >= pos of l that holds no space (Len(l) if none).
RECURSIVE SkipSpaces(_, _)
SkipSpaces(l, pos) ==
    IF pos < Len(l) /\ CharAt(l, pos) = SPACE THEN SkipSpaces(l, pos + 1)
    ELSE pos

\* A variant of UnquotedPart that steps over a whole run of spaces after a
\* part instead of over one space.
UnquotedPart_CollapsesSpaces(l, pos) ==
    LET nextpos == find_from(l, pos, SPACE)
    IN  IF nextpos # None
        THEN IF find_from_to(l, pos, nextpos, QUOTE) # None
             THEN Some(CommandPart_error(slice(l, pos, nextpos)),
                       SkipSpaces(l, nextpos + 1))
             ELSE Some(CommandPart_new(slice(l, pos, nextpos)),
                       SkipSpaces(l, nextpos + 1))
        ELSE IF find_from(l, pos, QUOTE) # None
             THEN Some(CommandPart_error(slice_from(l, pos)), Len(l) + 1)
             ELSE Some(CommandPart_new(slice_from(l, pos)), Len(l) + 1)

\* next, the unquoted branch.
UnquotedPart(l, pos) ==
    LET nextpos == find_from(l, pos, SPACE)
    IN  IF nextpos # None
        THEN IF find_from_to(l, pos, nextpos, QUOTE) # None
             THEN Some(CommandPart_error(slice(l, pos, nextpos)), nextpos + 1)
             ELSE Some(CommandPart_new(slice(l, pos, nextpos)), nextpos + 1)
        ELSE IF find_from(l, pos, QUOTE) # None
             THEN Some(CommandPart_error(slice_from(l, pos)), Len(l) + 1)
             ELSE Some(CommandPart_new(slice_from(l, pos)), Len(l) + 1)

\* A variant of next that returns None already at the end of the line.
next_StopsAtEnd(l, pos) ==
    IF pos >= Len(l) THEN [item |-> <<>>, position |-> pos]
    ELSE IF char_is(l, pos, QUOTE) THEN QuotedPart(l, pos)
    ELSE UnquotedPart(l, pos)

\* CommandLineIterator::next
next(l, pos) ==
    IF pos > Len(l) THEN [item |-> <<>>, position |-> pos]
    ELSE IF pos = Len(l) THEN EndOfLinePart(l, pos)
    ELSE IF char_is(l, pos, QUOTE) THEN QuotedPart(l, pos)
    ELSE UnquotedPart(l, pos)

\* CommandLine::parts().collect(): every part the iterator yields from pos on.
RECURSIVE collect(_, _)
collect(l, pos) ==
    LET r == next(l, pos)
    IN  IF r.item = <<>> THEN <<>>
        ELSE r.item \o collect(l, r.position)

\* CommandLine::parts().collect()
parts(l) == collect(l, 0)

\* [String]::join(" ")
RECURSIVE join(_)
join(ws) ==
    IF ws = <<>> THEN ""
    ELSE IF Len(ws) = 1 THEN ws[1]
    ELSE ws[1] \o SPACE \o join(Tail(ws))

\* ------------------------------------------------------- ordering of text
\* The characters of the model in ascending byte order.
Ascii == " ':<>B_abcdefghijklmnopqrstuvwxyz"

\* The rank of a one-character string in byte order.
Ord(c) == CHOOSE i \in 0..(Len(Ascii) - 1) : CharAt(Ascii, i) = c

\* String::cmp(a, b) == Less: bytewise lexicographic order.
RECURSIVE StrLess(_, _)
StrLess(a, b) ==
    IF b = "" THEN FALSE
    ELSE IF a = "" THEN TRUE
    ELSE IF Head(a) = Head(b) THEN StrLess(Tail(a), Tail(b))
    ELSE Ord(Head(a)) < Ord(Head(b))

\* ------------------------------------------------------ completion engine
\* KeywordExpander::expand_keyword(cp, parts) of the provider kw.  A literal
\* word expands to itself (demoapp.rs:48); a placeholder expands to the list
\* the provider holds for it, which a by_prefix provider (as expand_filename
\* does) narrows to the values that start with the last typed part.
expand_keyword(kw, cp, ctx) ==
    IF cp.slice \in DOMAIN kw.values
    THEN IF kw.by_prefix
         THEN SelectSeq(kw.values[cp.slice],
                        LAMBDA v : StartsWith(v, ctx[Len(ctx)]))
         ELSE kw.values[cp.slice]
    ELSE <<cp.slice>>

\* A variant of HasError that looks at the last typed word only.
HasError_LastOnly(lwords) == lwords[Len(lwords)].is_error

\* complete, "Return empty completion list if line has errors".
HasError(lwords) == \E i \in 1..Len(lwords) : lwords[i].is_error

\* A variant of starts_with with its operands swapped.
starts_with_Swapped(k, other) == StartsWith(other.slice, k.slice)

\* CommandPart::starts_with
starts_with(k, other) == StartsWith(k.slice, other.slice)

\* A variant of insert that keeps an entry the map already holds.
insert_KeepsFirst(pairs, display, replacement) ==
    [d \in (DOMAIN pairs) \cup {display} |->
        IF d \in DOMAIN pairs THEN pairs[d] ELSE replacement]

\* HashMap::insert(display, Pair {display, replacement}): the map from
\* display to replacement, an entry of the same key replaced.
insert(pairs, display, replacement) ==
    [d \in (DOMAIN pairs) \cup {display} |->
        IF d = display THEN replacement ELSE pairs[d]]

\* complete, the loop over keys for the last typed part: every key that
\* starts with the typed part gives a pair.  acc = [pairs, got_matches].
RECURSIVE LastPartKeys_AlwaysSpace(_, _, _, _, _, _)
LastPartKeys_AlwaysSpace(keys, j, lpart, prefix, more, acc) ==
    IF j > Len(keys) THEN acc
    ELSE LET k == CommandPart_new(keys[j])
         IN  IF ~starts_with(k, lpart)
             THEN LastPartKeys_AlwaysSpace(keys, j + 1, lpart, prefix, more,
                                           acc)
             ELSE LET replacement == prefix \o to_string(k) \o " "
                      display == to_string(k)
                  IN  LastPartKeys_AlwaysSpace(keys, j + 1, lpart, prefix, more,
                          [pairs |-> insert(acc.pairs, display, replacement),
                           got_matches |-> TRUE])
RECURSIVE LastPartKeys(_, _, _, _, _, _)
LastPartKeys(keys, j, lpart, prefix, more, acc) ==
    IF j > Len(keys) THEN acc
    ELSE LET k == CommandPart_new(keys[j])
         IN  IF ~starts_with(k, lpart)
             THEN LastPartKeys(keys, j + 1, lpart, prefix, more, acc)
             ELSE LET replacement ==
                          prefix \o to_string(k) \o (IF more THEN " " ELSE "")
                      display == to_string(k)
                  IN  LastPartKeys(keys, j + 1, lpart, prefix, more,
                          [pairs |-> insert(acc.pairs, display, replacement),
                           got_matches |-> TRUE])

\* complete, the loop over keys for a typed part before the last: whether
\* some key reaches "continue 'parts" (any key does for a placeholder).
NonLastMatches(keys, cp, lpart) ==
    \E j \in 1..Len(keys) :
        StartsWith(cp.slice, "<") \/ lpart.slice = keys[j]

\* complete, the loop over the parts of one command from 0-based index i.
\* st = [pairs, queries]: the map so far and the calls of expand_keyword.
RECURSIVE PartsLoop(_, _, _, _, _, _)
PartsLoop(lwords, kw, cmd_vec, i, prefix, st) ==
    IF i >= Len(cmd_vec) THEN st
    ELSE IF i = Len(lwords) THEN st
    ELSE LET cp == cmd_vec[i + 1]
             lpart == lwords[i + 1]
             ctx == [n \in 1..(i + 1) |-> to_string(lwords[n])]
             keys == expand_keyword(kw, cp, ctx)
             st1 == [st EXCEPT !.queries = @ + 1]
         IN  IF i = Len(lwords) - 1
             THEN LET r == LastPartKeys(keys, 1, lpart, prefix,
                               Len(cmd_vec) > i + 1,
                               [pairs |-> st.pairs, got_matches |-> FALSE])
                      st2 == [st1 EXCEPT !.pairs = r.pairs]
                  IN  IF ~r.got_matches THEN st2
                      ELSE PartsLoop(lwords, kw, cmd_vec, i + 1, prefix, st2)
             ELSE IF NonLastMatches(keys, cp, lpart)
                  THEN PartsLoop(lwords, kw, cmd_vec, i + 1,
                                 prefix \o to_string(lpart) \o " ", st1)
                  ELSE st1

\* complete, the loop over all commands from the n-th on.
RECURSIVE CommandsLoop(_, _, _, _, _)
CommandsLoop(lwords, kw, cmds, n, st) ==
    IF n > Len(cmds) THEN st
    ELSE CommandsLoop(lwords, kw, cmds, n + 1,
             PartsLoop(lwords, kw, parts(cmds[n]), 0, "", st))

\* pairs.into_values().collect() and sort_by(display): the pairs in ascending
\* order of display.
RECURSIVE SortByDisplay(_)
SortByDisplay(pairs) ==
    IF DOMAIN pairs = {} THEN <<>>
    ELSE LET d == CHOOSE x \in DOMAIN pairs :
                      \A y \in DOMAIN pairs : x = y \/ StrLess(x, y)
         IN  <<[display |-> d, replacement |-> pairs[d]]>>
             \o SortByDisplay([y \in (DOMAIN pairs) \ {d} |-> pairs[y]])

\* CommandCompleter::complete(line): the candidates, and how many times the
\* provider's expand_keyword was called.
complete(l, cmds, kw) ==
    LET lwords == parts(l)
    IN  IF HasError(lwords) THEN [pairs |-> <<>>, queries |-> 0]
        ELSE LET st == CommandsLoop(lwords, kw, cmds, 1,
                                    [pairs |-> <<>>, queries |-> 0])
             IN  [pairs |-> SortByDisplay(st.pairs), queries |-> st.queries]

\* -------------------------------------------------------------- dispatcher
\* A variant of is_replacement_word with a mistyped closing bracket.
is_replacement_word_Mistyped(arg) == StartsWith(arg, "<") /\ EndsWith(arg, "<")

\* read_commands: "Next param is a '<keyword>' replacement word".
is_replacement_word(arg) == StartsWith(arg, "<") /\ EndsWith(arg, ">")

\* A variant of extend that joins without the space.
extend_NoSpace(cmd, arg) == cmd \o arg

\* read_commands: the command string extended by the next argument.
extend(cmd, arg) == IF Len(cmd) = 0 THEN arg ELSE cmd \o " " \o arg

\* A variant of narrow that keeps the commands that contain p anywhere.
narrow_Contains(cmdlist, p) ==
    SelectSeq(cmdlist,
              LAMBDA c : \E i \in 0..Len(c) : StartsWith(slice_from(c, i), p))

\* read_commands: cmdlist filtered to the commands that start with p.
narrow(cmdlist, p) == SelectSeq(cmdlist, LAMBDA c : StartsWith(c, p))

\* read_commands: the loop that moves the leading keywords out of args into
\* the command string.  taken lists the arguments moved, in order.
RECURSIVE keyword_loop(_, _, _, _)
keyword_loop(cmd, cmdlist, args, taken) ==
    IF Len(args) = 0 THEN [cmd |-> cmd, args |-> args, taken |-> taken]
    ELSE IF is_replacement_word(args[1])
    THEN [cmd |-> cmd, args |-> args, taken |-> taken]
    ELSE IF args[1] = "" THEN keyword_loop(cmd, cmdlist, Tail(args), taken)
    ELSE LET p == extend(cmd, args[1])
             filtered == narrow(cmdlist, p)
         IN  IF Len(filtered) > 0
             THEN keyword_loop(p, filtered, Tail(args), Append(taken, args[1]))
             ELSE [cmd |-> cmd, args |-> args, taken |-> taken]

\* read_commands: the arguments of a line, each part rendered to a String.
line_args(l) == LET ps == parts(l) IN [i \in 1..Len(ps) |-> to_string(ps[i])]

\* read_commands: a line split into the command string and its arguments.
dispatch(l, cmds) == keyword_loop("", cmds, line_args(l), <<>>)

\* read_commands, after the keyword loop: an empty cmd is never executed,
\* and is reported as a bad command when arguments are left; any other cmd
\* is handed to execute_line once, whose error (ok = FALSE) is printed.
line_outcome_ExecutesEmpty(cmd, args, ok) ==
    IF cmd = "" /\ Len(args) = 0
    THEN [executed |-> 0, report |-> ""]
    ELSE [executed |-> 1,
          report |-> IF ok THEN "" ELSE "execute_line error"]
line_outcome(cmd, args, ok) ==
    IF cmd = ""
    THEN [executed |-> 0,
          report |-> IF Len(args) > 0 THEN "Bad command." ELSE ""]
    ELSE [executed |-> 1,
          report |-> IF ok THEN "" ELSE "execute_line error"]

\* ------------------------------------------------------------------- pager
\* print_columns: let min_padding = 2
min_padding == 2

Min(a, b) == IF a <= b THEN a ELSE b
Max(a, b) == IF a >= b THEN a ELSE b

\* print_columns: cols = term_w/(max_line + min_padding)
cols_of(term_w, max_line) == term_w \div (max_line + min_padding)

\* A variant of cwidth_of that rounds the column width up.
cwidth_of_RoundedUp(term_w, ncols) == (term_w + ncols - 1) \div ncols

\* print_columns: cwidth = term_w/cols (cols > 0)
cwidth_of(term_w, ncols) == term_w \div ncols

\* print_columns: end_row = (lines.len() + cols - 1) / cols (cols > 0)
end_row_of(n, ncols) == (n + ncols - 1) \div ncols

\* print_columns: page_size = term_h - 1
page_size_of(term_h) == term_h - 1

\* A variant of is_paged_of that also pages output that just fills a screen.
is_paged_of_AtLeast(end_row, page_size) == end_row >= page_size

\* print_columns: is_paged = end_row > page_size
is_paged_of(end_row, page_size) == end_row > page_size

\* print_columns, the for loop of one pass over lines[lstart..lend], from the
\* k-th line of the slice on: a line that ends a row is printed as it is and
\* followed by a line break, any other is left-justified to cwidth.  Each
\* event names the line (item, 1-based), the characters printed for it
\* (width) and whether a line break follows (nl).
RECURSIVE print_slice(_, _, _, _, _, _)
print_slice(widths, lstart, lend, k, ncols, cwidth) ==
    IF lstart + k > lend THEN <<>>
    ELSE LET i == k % ncols
             w == widths[lstart + k]
         IN  <<IF i = 0
               THEN [item |-> lstart + k, width |-> w, nl |-> TRUE]
               ELSE [item |-> lstart + k, width |-> Max(w, cwidth),
                     nl |-> FALSE]>>
             \o print_slice(widths, lstart, lend, k + 1, ncols, cwidth)

\* print_columns, one pass of the outer loop from the top row pos: the
\* events of the lines printed, and a last line break (item 0) when the last
\* row is not full.  The slice lines[lstart..lend] panics when lstart > lend.
print_pass(widths, pos, ncols, cwidth, page_size) ==
    LET n == Len(widths)
        lstart == pos * ncols
        lend == Min((pos + page_size) * ncols, n)
    IN  IF lstart > lend THEN [panic |-> TRUE, out |-> <<>>]
        ELSE [panic |-> FALSE,
              out |-> print_slice(widths, lstart, lend, 1, ncols, cwidth)
                      \o (IF (lend - lstart) % ncols # 0
                          THEN <<[item |-> 0, width |-> 0, nl |-> TRUE]>>
                          ELSE <<>>)]

\* A variant of next_position whose Space and PageDown arm moves a whole
\* page whenever a row is left below the screen.
next_position_PageDownUnclamped(key, pos, page_size, end_row) ==
    CASE key = "Home" -> IF pos > 0 THEN 0 ELSE pos
      [] key = "End" ->
            IF pos + page_size < end_row THEN end_row - page_size ELSE pos
      [] key \in {"PageUp", "b"} ->
            IF pos > page_size THEN pos - page_size
            ELSE IF pos > 0 THEN 0 ELSE pos
      [] key \in {" ", "PageDown"} ->
            IF pos + page_size < end_row THEN pos + page_size ELSE pos
      [] key = "ArrowUp" -> IF pos > 0 THEN pos - 1 ELSE pos
      [] key \in {"Enter", "ArrowDown"} ->
            IF pos + page_size < end_row THEN pos + 1 ELSE pos
      [] OTHER -> pos

\* print_columns, the match on the key read: the new top row, or the old one
\* when the key changes nothing (no break out of the inner loop).
next_position(key, pos, page_size, end_row) ==
    CASE key = "Home" -> IF pos > 0 THEN 0 ELSE pos
      [] key = "End" ->
            IF pos + page_size < end_row THEN end_row - page_size ELSE pos
      [] key \in {"PageUp", "b"} ->
            IF pos > page_size THEN pos - page_size
            ELSE IF pos > 0 THEN 0 ELSE pos
      [] key \in {" ", "PageDown"} ->
            IF pos + page_size * 2 < end_row THEN pos + page_size
            ELSE IF pos + page_size < end_row THEN end_row - page_size
            ELSE pos
      [] key = "ArrowUp" -> IF pos > 0 THEN pos - 1 ELSE pos
      [] key \in {"Enter", "ArrowDown"} ->
            IF pos + page_size < end_row THEN pos + 1 ELSE pos
      [] OTHER -> pos

\* print_columns, the match on the key read: whether the arm of the key
\* breaks out of the inner loop, so that the screen is painted again.
breaks_inner(key, pos, page_size, end_row) ==
    CASE key = "Home" -> pos > 0
      [] key = "End" -> pos + page_size < end_row
      [] key \in {"PageUp", "b"} -> pos > 0
      [] key \in {" ", "PageDown"} -> pos + page_size < end_row
      [] key = "ArrowUp" -> pos > 0
      [] key \in {"Enter", "ArrowDown"} -> pos + page_size < end_row
      [] OTHER -> FALSE

NavigationKeys ==
    {"Home", "End", "PageUp", "b", " ", "PageDown", "ArrowUp", "Enter",
     "ArrowDown"}
AbortKeys == {"q", "CtrlC", "Escape"}
OtherKeys == {"x", "Tab"}
\* The keys wait_for_key returns in the model.
Keys == NavigationKeys \cup AbortKeys \cup OtherKeys

\* print_columns, the match on the key read: the arm of 'q', Ctrl-C and
\* Escape breaks out of the outer loop.
breaks_outer_NoEscape(key) == key \in {"q", "CtrlC"}
breaks_outer(key) == key \in {"q", "CtrlC", "Escape"}

\* ------------------------------------------------------------------- state
VARIABLES
    words,      \* tokenizer: the word list the line was joined from, if any
    joined,     \* tokenizer: whether line is join(words)
    line,       \* tokenizer: CommandLine.line
    position,   \* tokenizer: CommandLineIterator.position
    emitted,    \* tokenizer: the parts yielded so far, each with the
                \*   position before (from) and after (to) the call
    done,       \* tokenizer: next has returned None
    cp_cmds,    \* completion: KeywordExpander::command_list()
    cp_kw,      \* completion: the provider behind expand_keyword
    cp_line,    \* completion: the line typed so far
    cp_done,    \* completion: complete has run on cp_line
    cp_pairs,   \* completion: the Vec<Pair> complete returned
    cp_queries, \* completion: the calls of expand_keyword complete made
    rc_pc,      \* read_commands: "init", "prompt", "ended" or "exited"
    rc_cmds,    \* read_commands: CmdApp::command_list()
    rc_line,    \* read_commands: the line being typed at the prompt
    rc_entered, \* read_commands: whether a line was read in the last cycle
    rc_tokens,  \* read_commands: args of the last line read, as collected
    rc_cmd,     \* read_commands: cmd of the last line read
    rc_args,    \* read_commands: args of the last line read, after the loop
    rc_taken,   \* read_commands: the arguments moved into cmd
    rc_report,  \* read_commands: what the last cycle printed
    rc_executed,\* read_commands: calls of execute_line in the last cycle
    rc_startups,\* read_commands: calls of CmdApp::startup
    rc_exits,   \* read_commands: calls of CmdApp::exit
    rc_event,   \* read_commands: the last thing that happened: "none",
                \*   "startup", "typed", "line", "interrupted", "eof",
                \*   "error" or "exit"
    pg_lines,   \* print_columns: lines, each as its width in characters
    pg_max_line,\* print_columns: max_line
    pg_term_w,  \* print_columns: term_w
    pg_term_h,  \* print_columns: term_h
    pg_pc,      \* print_columns: "call", "wait", "returned" or "panic"
    pg_position,\* print_columns: position, the top row
    pg_screen,  \* print_columns: what the last pass printed
    pg_paints,  \* print_columns: passes of the outer loop
    pg_prompts, \* print_columns: times --More-- was printed
    pg_keys,    \* print_columns: calls of wait_for_key
    pg_erased,  \* print_columns: the --More-- prompt was erased at the end
    pg_key      \* print_columns: the key wait_for_key returned last

tokvars == <<words, joined, line, position, emitted, done>>
cpvars == <<cp_cmds, cp_kw, cp_line, cp_done, cp_pairs, cp_queries>>
rcvars == <<rc_pc, rc_cmds, rc_line, rc_entered, rc_tokens, rc_cmd, rc_args,
            rc_taken, rc_report, rc_executed, rc_startups, rc_exits,
            rc_event>>
pgvars == <<pg_lines, pg_max_line, pg_term_w, pg_term_h, pg_pc, pg_position,
            pg_screen, pg_paints, pg_prompts, pg_keys, pg_erased, pg_key>>
vars == <<tokvars, cpvars, rcvars, pgvars>>

\* The components at rest, for the specifications of the other components.
TokIdle ==
    /\ words = <<>> /\ joined = FALSE /\ line = "" /\ position = 0
    /\ emitted = <<>> /\ done = FALSE
CpIdle ==
    /\ cp_cmds = <<>> /\ cp_kw = [values |-> <<>>, by_prefix |-> FALSE]
    /\ cp_line = "" /\ cp_done = FALSE /\ cp_pairs = <<>> /\ cp_queries = 0
\* The variables of one cycle of read_commands before a line is read.
RcFresh ==
    /\ rc_entered = FALSE /\ rc_tokens = <<>> /\ rc_cmd = "" /\ rc_args = <<>>
    /\ rc_taken = <<>> /\ rc_report = "" /\ rc_executed = 0
RcIdle ==
    /\ rc_pc = "init" /\ rc_cmds = <<>> /\ rc_line = "" /\ RcFresh
    /\ rc_startups = 0 /\ rc_exits = 0 /\ rc_event = "none"
PgIdle ==
    /\ pg_lines = <<>> /\ pg_max_line = 0 /\ pg_term_w = 80 /\ pg_term_h = 25
    /\ pg_pc = "call" /\ pg_position = 0 /\ pg_screen = <<>> /\ pg_paints = 0
    /\ pg_prompts = 0 /\ pg_keys = 0 /\ pg_erased = FALSE /\ pg_key = ""

\* ------------------------------------------------- the tokenizer, stepwise
TokAlphabet == {"a", SPACE, QUOTE}
WordAlphabet == {"a", "b"}

\* CommandLine::new(line).parts(): position 0, nothing yielded yet.  The
\* line is either any line over TokAlphabet or the join of a word list.
InitTok ==
    /\ \/ /\ joined = FALSE
          /\ words = <<>>
          /\ line \in StringsUpTo(TokAlphabet, MaxLineLen)
       \/ /\ joined = TRUE
          /\ words \in SeqsUpTo(StringsUpTo(WordAlphabet, MaxWordLen), MaxWords)
          /\ line = join(words)
    /\ position = 0
    /\ emitted = <<>>
    /\ done = FALSE
    /\ CpIdle
    /\ RcIdle
    /\ PgIdle

\* One call of CommandLineIterator::next that yields a part.
IterNextSome ==
    /\ ~done
    /\ LET r == next(line, position)
       IN  /\ r.item # <<>>
           /\ emitted' = Append(emitted,
                  [part |-> r.item[1], from |-> position, to |-> r.position])
           /\ position' = r.position
    /\ UNCHANGED <<words, joined, line, done, cpvars, rcvars, pgvars>>

\* The call of CommandLineIterator::next that returns None.
IterNextNone ==
    /\ ~done
    /\ next(line, position).item = <<>>
    /\ done' = TRUE
    /\ UNCHANGED <<words, joined, line, position, emitted, cpvars, rcvars,
                   pgvars>>

NextTok == IterNextSome \/ IterNextNone

SpecTok == InitTok /\ [][NextTok]_vars

\* ----------------------------------------------- the completion, stepwise
CompAlphabet == {"a", "r", SPACE, QUOTE}

\* The command lists of the model.
TemplateLists ==
    { <<"run", "run <x>">>,
      <<"a r <x>", "a ra <y>">>,
      <<"r <x> <y>", "ar">> }

\* The providers of the model: a list of values for each placeholder,
\* narrowed by the typed prefix or not.
Providers ==
    { [values |-> ("<x>" :> vx @@ "<y>" :> vy), by_prefix |-> b] :
        vx \in { <<>>, <<"ra", "a", "ra">>, <<"a r", "ar">> },
        vy \in { <<"r", "a">>, <<"a a">> },
        b \in BOOLEAN }

\* The line editor with an empty line, before any completion.
InitComplete ==
    /\ TokIdle
    /\ RcIdle
    /\ PgIdle
    /\ cp_cmds \in TemplateLists
    /\ cp_kw \in Providers
    /\ cp_line = ""
    /\ cp_done = FALSE
    /\ cp_pairs = <<>>
    /\ cp_queries = 0

\* The user types one more character.
TypeChar ==
    /\ Len(cp_line) < MaxTypedLen
    /\ \E c \in CompAlphabet : cp_line' = cp_line \o c
    /\ cp_done' = FALSE
    /\ cp_pairs' = <<>>
    /\ cp_queries' = 0
    /\ UNCHANGED <<tokvars, rcvars, pgvars, cp_cmds, cp_kw>>

\* The line editor calls Completer::complete on the line typed so far.
Complete ==
    /\ ~cp_done
    /\ LET r == complete(cp_line, cp_cmds, cp_kw)
       IN  /\ cp_pairs' = r.pairs
           /\ cp_queries' = r.queries
    /\ cp_done' = TRUE
    /\ UNCHANGED <<tokvars, rcvars, pgvars, cp_cmds, cp_kw, cp_line>>

NextComplete == TypeChar \/ Complete

SpecComplete == InitComplete /\ [][NextComplete]_vars

\* --------------------------------------------- read_commands, stepwise
LoopAlphabet == {"r", "<", ">", SPACE, QUOTE}

\* The command lists of the applications of the model.
CommandLists ==
    { <<"run", "help">>,
      <<"r <r>", "rr">>,
      <<"r r <r>", "r <r> r">> }

\* read_commands has been called and has not yet run.
InitLoop ==
    /\ TokIdle
    /\ CpIdle
    /\ PgIdle
    /\ rc_pc = "init"
    /\ rc_cmds \in CommandLists
    /\ rc_line = ""
    /\ RcFresh
    /\ rc_startups = 0
    /\ rc_exits = 0
    /\ rc_event = "none"

\* self.app.startup(), then the first prompt.
Startup ==
    /\ rc_pc = "init"
    /\ rc_pc' = "prompt"
    /\ rc_startups' = rc_startups + 1
    /\ rc_event' = "startup"
    /\ UNCHANGED <<tokvars, cpvars, pgvars, rc_cmds, rc_line, rc_entered, rc_tokens,
                   rc_cmd, rc_args, rc_taken, rc_report, rc_executed, rc_exits>>

\* editor.readline: the user types one more character at the prompt.  The
\* cycle's own variables (args, cmd) are fresh.
TypeKey ==
    /\ rc_pc = "prompt"
    /\ Len(rc_line) < MaxEnteredLen
    /\ \E c \in LoopAlphabet : rc_line' = rc_line \o c
    /\ rc_event' = "typed"
    /\ rc_entered' = FALSE /\ rc_tokens' = <<>> /\ rc_cmd' = ""
    /\ rc_args' = <<>> /\ rc_taken' = <<>> /\ rc_report' = ""
    /\ rc_executed' = 0
    /\ UNCHANGED <<tokvars, cpvars, pgvars, rc_pc, rc_cmds, rc_startups, rc_exits>>

\* editor.readline returns Ok(line): the line is split into args, the
\* keywords are moved into cmd, and the command is executed or refused;
\* execute_line answers ok (TRUE) or with an error.  Then the next prompt.
ReadLineOk ==
    /\ rc_pc = "prompt"
    /\ LET r == dispatch(rc_line, rc_cmds)
       IN  /\ rc_tokens' = line_args(rc_line)
           /\ rc_cmd' = r.cmd
           /\ rc_args' = r.args
           /\ rc_taken' = r.taken
           /\ \E ok \in BOOLEAN :
                  LET o == line_outcome(r.cmd, r.args, ok)
                  IN  /\ rc_executed' = o.executed
                      /\ rc_report' = o.report
    /\ rc_entered' = TRUE
    /\ rc_event' = "line"
    /\ rc_line' = ""
    /\ UNCHANGED <<tokvars, cpvars, pgvars, rc_pc, rc_cmds, rc_startups, rc_exits>>

\* editor.readline returns Err(Interrupted): continue with the next prompt.
ReadLineInterrupted_Breaks ==
    /\ rc_pc = "prompt"
    /\ rc_pc' = "ended"
    /\ rc_event' = "interrupted"
    /\ rc_line' = ""
    /\ rc_entered' = FALSE /\ rc_tokens' = <<>> /\ rc_cmd' = ""
    /\ rc_args' = <<>> /\ rc_taken' = <<>> /\ rc_report' = ""
    /\ rc_executed' = 0
    /\ UNCHANGED <<tokvars, cpvars, pgvars, rc_cmds, rc_startups, rc_exits>>
ReadLineInterrupted ==
    /\ rc_pc = "prompt"
    /\ rc_event' = "interrupted"
    /\ rc_line' = ""
    /\ rc_entered' = FALSE /\ rc_tokens' = <<>> /\ rc_cmd' = ""
    /\ rc_args' = <<>> /\ rc_taken' = <<>> /\ rc_report' = ""
    /\ rc_executed' = 0
    /\ UNCHANGED <<tokvars, cpvars, pgvars, rc_pc, rc_cmds, rc_startups, rc_exits>>

\* editor.readline returns Err(Eof): the loop ends.
ReadLineEof_ReturnsAtOnce ==
    /\ rc_pc = "prompt"
    /\ rc_pc' = "exited"
    /\ rc_event' = "eof"
    /\ rc_line' = ""
    /\ rc_entered' = FALSE /\ rc_tokens' = <<>> /\ rc_cmd' = ""
    /\ rc_args' = <<>> /\ rc_taken' = <<>> /\ rc_report' = ""
    /\ rc_executed' = 0
    /\ UNCHANGED <<tokvars, cpvars, pgvars, rc_cmds, rc_startups, rc_exits>>
ReadLineEof ==
    /\ rc_pc = "prompt"
    /\ rc_pc' = "ended"
    /\ rc_event' = "eof"
    /\ rc_line' = ""
    /\ rc_entered' = FALSE /\ rc_tokens' = <<>> /\ rc_cmd' = ""
    /\ rc_args' = <<>> /\ rc_taken' = <<>> /\ rc_report' = ""
    /\ rc_executed' = 0
    /\ UNCHANGED <<tokvars, cpvars, pgvars, rc_cmds, rc_startups, rc_exits>>

\* editor.readline returns any other Err: it is printed and the loop ends.
ReadLineError ==
    /\ rc_pc = "prompt"
    /\ rc_pc' = "ended"
    /\ rc_event' = "error"
    /\ rc_line' = ""
    /\ rc_entered' = FALSE /\ rc_tokens' = <<>> /\ rc_cmd' = ""
    /\ rc_args' = <<>> /\ rc_taken' = <<>> /\ rc_report' = "Error: readline"
    /\ rc_executed' = 0
    /\ UNCHANGED <<tokvars, cpvars, pgvars, rc_cmds, rc_startups, rc_exits>>

\* self.app.exit() after the loop, and read_commands returns.
Exit ==
    /\ rc_pc = "ended"
    /\ rc_pc' = "exited"
    /\ rc_exits' = rc_exits + 1
    /\ rc_event' = "exit"
    /\ UNCHANGED <<tokvars, cpvars, pgvars, rc_cmds, rc_line, rc_entered, rc_tokens,
                   rc_cmd, rc_args, rc_taken, rc_report, rc_executed,
                   rc_startups>>

NextLoop ==
    \/ Startup
    \/ TypeKey
    \/ ReadLineOk
    \/ ReadLineInterrupted
    \/ ReadLineEof
    \/ ReadLineError
    \/ Exit

SpecLoop == InitLoop /\ [][NextLoop]_vars

\* ------------------------------------------------ print_columns, stepwise
\* The widths of the lines handed to print_columns.
LineWidths == {1, 3}

\* The layout of the call at hand (cols > 0 where cwidth and end_row are
\* used).
cols == cols_of(pg_term_w, pg_max_line)
cwidth == cwidth_of(pg_term_w, cols)
end_row == end_row_of(Len(pg_lines), cols)
page_size == page_size_of(pg_term_h)
is_paged == is_paged_of(end_row, page_size)

\* print_columns is called with some lines and some max_line, on a terminal
\* of some size (term_size::dimensions() gives positive dimensions or None,
\* for which 80x25 stands in).
InitPager ==
    /\ TokIdle
    /\ CpIdle
    /\ RcIdle
    /\ pg_lines \in SeqsUpTo(LineWidths, MaxLines)
    /\ pg_max_line \in {0} \cup LineWidths
    /\ pg_term_w \in 1..MaxTermW
    /\ pg_term_h \in 1..MaxTermH
    /\ pg_pc = "call"
    /\ pg_position = 0
    /\ pg_screen = <<>>
    /\ pg_paints = 0
    /\ pg_prompts = 0
    /\ pg_keys = 0
    /\ pg_erased = FALSE
    /\ pg_key = ""

\* print_columns up to its first wait_for_key or its return: the layout, the
\* first pass and, when paged, the --More-- prompt.  term_w/cols panics
\* (division by zero) when cols is 0.
PrintColumns ==
    /\ pg_pc = "call"
    /\ IF cols = 0
       THEN /\ pg_pc' = "panic"
            /\ UNCHANGED <<pg_screen, pg_paints, pg_prompts>>
       ELSE LET r == print_pass(pg_lines, pg_position, cols, cwidth, page_size)
            IN  IF r.panic
                THEN /\ pg_pc' = "panic"
                     /\ UNCHANGED <<pg_screen, pg_paints, pg_prompts>>
                ELSE /\ pg_screen' = r.out
                     /\ pg_paints' = pg_paints + 1
                     /\ IF is_paged
                        THEN pg_prompts' = pg_prompts + 1 /\ pg_pc' = "wait"
                        ELSE pg_prompts' = pg_prompts /\ pg_pc' = "returned"
    /\ UNCHANGED <<tokvars, cpvars, rcvars, pg_lines, pg_max_line, pg_term_w,
                   pg_term_h, pg_position, pg_keys, pg_erased, pg_key>>

\* wait_for_key returns a navigation key: when its arm breaks out of the
\* inner loop, the screen is painted from the new top row and the prompt is
\* printed again; otherwise the pager waits for the next key.
KeyNavigate ==
    /\ pg_pc = "wait"
    /\ pg_keys < MaxKeys
    /\ \E key \in NavigationKeys :
          LET pos == next_position(key, pg_position, page_size, end_row)
              r == print_pass(pg_lines, pos, cols, cwidth, page_size)
          IN  /\ pg_key' = key
              /\ IF breaks_inner(key, pg_position, page_size, end_row)
                 THEN /\ pg_position' = pos
                      /\ IF r.panic
                         THEN /\ pg_pc' = "panic"
                              /\ UNCHANGED <<pg_screen, pg_paints,
                                             pg_prompts>>
                         ELSE /\ pg_screen' = r.out
                              /\ pg_paints' = pg_paints + 1
                              /\ pg_prompts' = pg_prompts + 1
                              /\ pg_pc' = "wait"
                 ELSE UNCHANGED <<pg_position, pg_pc, pg_screen, pg_paints,
                                  pg_prompts>>
    /\ pg_keys' = pg_keys + 1
    /\ UNCHANGED <<tokvars, cpvars, rcvars, pg_lines, pg_max_line, pg_term_w,
                   pg_term_h, pg_erased>>

\* wait_for_key returns 'q', Ctrl-C or Escape: break 'outer, the prompt is
\* erased and print_columns returns.
KeyAbort ==
    /\ pg_pc = "wait"
    /\ pg_keys < MaxKeys
    /\ \E key \in Keys \ NavigationKeys :
          /\ breaks_outer(key)
          /\ pg_key' = key
    /\ pg_pc' = "returned"
    /\ pg_keys' = pg_keys + 1
    /\ pg_erased' = TRUE
    /\ UNCHANGED <<tokvars, cpvars, rcvars, pg_lines, pg_max_line, pg_term_w,
                   pg_term_h, pg_position, pg_screen, pg_paints, pg_prompts>>

\* wait_for_key returns any other key: nothing happens and the pager waits
\* for the next key.
KeyOther ==
    /\ pg_pc = "wait"
    /\ pg_keys < MaxKeys
    /\ \E key \in Keys \ NavigationKeys :
          /\ ~breaks_outer(key)
          /\ pg_key' = key
    /\ pg_keys' = pg_keys + 1
    /\ UNCHANGED <<tokvars, cpvars, rcvars, pg_lines, pg_max_line, pg_term_w,
                   pg_term_h, pg_pc, pg_position, pg_screen, pg_paints,
                   pg_prompts, pg_erased>>

NextPager == PrintColumns \/ KeyNavigate \/ KeyAbort \/ KeyOther

SpecPager == InitPager /\ [][NextPager]_vars

\* ---------------------------------------------------- tokenizer properties
\* The parts yielded so far, without the positions.
EmittedParts == [i \in 1..Len(emitted) |-> emitted[i].part]

\* The contents of the parts yielded so far.
EmittedSlices == [i \in 1..Len(emitted) |-> emitted[i].part.slice]

\* The line holds nothing but spaces (the empty line included).
OnlySpaces(l) == \A i \in 0..(Len(l) - 1) : CharAt(l, i) = SPACE

\* C1 as stated: once the tokenizer is done with an empty line or a line of
\* spaces only, it has yielded exactly one part, empty and not an error.
C1_Original ==
    (done /\ OnlySpaces(line)) =>
        /\ Len(emitted) = 1
        /\ emitted[1].part.slice = ""
        /\ ~emitted[1].part.is_error

\* C1 amended: once the tokenizer is done with a line of n >= 0 spaces and
\* nothing else, it has yielded exactly n + 1 parts, every one of them empty
\* and not an error (exactly one part for the empty line).
C1_SpacesYieldEmptyParts ==
    (done /\ OnlySpaces(line)) =>
        /\ Len(emitted) = Len(line) + 1
        /\ \A i \in 1..Len(emitted) :
              /\ emitted[i].part.slice = ""
              /\ ~emitted[i].part.is_error

\* A line of two or more spaces has been tokenized to the end.
C1_Witness == done /\ OnlySpaces(line) /\ Len(line) >= 2 /\ Len(emitted) >= 3

\* C2 as stated: for every word list, tokenizing the words joined by single
\* spaces yields the words again, none of them an error.
C2_Original ==
    (done /\ joined) =>
        /\ EmittedSlices = words
        /\ \A i \in 1..Len(emitted) : ~emitted[i].part.is_error

\* C2 amended: for every non-empty list of words that hold no space and no
\* quote, tokenizing the words joined by single spaces yields the words
\* again: same length, same contents, same order, and no error part.
C2_JoinRoundTrip ==
    (done /\ joined /\ words # <<>>) =>
        /\ Len(emitted) = Len(words)
        /\ \A i \in 1..Len(emitted) :
              /\ emitted[i].part.slice = words[i]
              /\ ~emitted[i].part.is_error

\* A list of three words, the last one empty, has been joined and tokenized.
C2_Witness ==
    /\ done /\ joined /\ Len(words) = 3
    /\ words[1] # "" /\ words[3] = "" /\ Len(emitted) = 3

\* The part yielded from offset p of l was yielded at an opening quote whose
\* next quote is at q, with a character that is not a space at q + 1.
QuoteThenNonSpace(l, p, q) ==
    /\ p < Len(l) /\ CharAt(l, p) = QUOTE
    /\ q > p /\ q < Len(l) /\ CharAt(l, q) = QUOTE
    /\ \A j \in (p + 1)..(q - 1) : CharAt(l, j) # QUOTE
    /\ q + 1 < Len(l) /\ CharAt(l, q + 1) # SPACE

\* C3: a part yielded at an opening quote at p whose closing quote at q is
\* followed by a character that is not a space is an error part holding the
\* text from p up to but excluding q; the position then is q + 1, and the
\* next part is scanned from there.
C3_QuoteThenNonSpaceIsError ==
    \A i \in 1..Len(emitted) : \A q \in 0..Len(line) :
        QuoteThenNonSpace(line, emitted[i].from, q) =>
            /\ emitted[i].part.is_error
            /\ emitted[i].part.slice = SubSeq(line, emitted[i].from + 1, q)
            /\ emitted[i].to = q + 1
            /\ i < Len(emitted) => emitted[i + 1].from = q + 1
            /\ done => i < Len(emitted)

\* The line 'a'a has been tokenized: the error part 'a, then the part a.
C3_Witness ==
    /\ done /\ line = "'a'a" /\ Len(emitted) = 2
    /\ emitted[1].part.is_error /\ emitted[1].part.slice = "'a"
    /\ emitted[2].part.slice = "a" /\ ~emitted[2].part.is_error

\* The part yielded from offset p of l was yielded at an opening quote with
\* no quote after it.
QuoteNeverClosed(l, p) ==
    /\ p < Len(l) /\ CharAt(l, p) = QUOTE
    /\ \A j \in (p + 1)..(Len(l) - 1) : CharAt(l, j) # QUOTE

\* C4: a part yielded at an opening quote with no later quote in the line is
\* not an error, holds the whole rest of the line after the quote, and is the
\* last part the line yields.
C4_UnclosedQuoteTakesRest ==
    \A i \in 1..Len(emitted) :
        QuoteNeverClosed(line, emitted[i].from) =>
            /\ ~emitted[i].part.is_error
            /\ emitted[i].part.slice =
                   SubSeq(line, emitted[i].from + 2, Len(line))
            /\ emitted[i].to = Len(line) + 1
            /\ i = Len(emitted)

\* A line with an opening quote and no closing one, with a space after the
\* quote, has been tokenized to the end.
C4_Witness ==
    /\ done /\ Len(emitted) >= 2
    /\ QuoteNeverClosed(line, emitted[Len(emitted)].from)
    /\ Contains(emitted[Len(emitted)].part.slice, SPACE)

\* C18 as stated: for every part yielded, error parts included, is_quoted is
\* set if and only if the part's content holds a space.
C18_Original ==
    \A i \in 1..Len(emitted) :
        emitted[i].part.is_quoted <=> Contains(emitted[i].part.slice, SPACE)

\* C18 amended: for every part yielded that is not an error, is_quoted is
\* set if and only if the part's content holds a space; for every error
\* part is_quoted is not set, whether or not its content holds a space.
C18_FlagOfPartsThatAreNoErrors ==
    \A i \in 1..Len(emitted) :
        IF emitted[i].part.is_error
        THEN ~emitted[i].part.is_quoted
        ELSE emitted[i].part.is_quoted
                <=> Contains(emitted[i].part.slice, SPACE)

\* The tokenizer is done with a line that gave an error part with a space in
\* it and a part with a space in it that is not an error.
C18_Witness ==
    /\ done /\ Len(emitted) >= 2
    /\ \E i \in 1..Len(emitted) :
          /\ ~emitted[i].part.is_error
          /\ Contains(emitted[i].part.slice, SPACE)
          /\ emitted[i].part.is_quoted
    /\ \E i \in 1..Len(emitted) :
          /\ emitted[i].part.is_error
          /\ Contains(emitted[i].part.slice, SPACE)
          /\ ~emitted[i].part.is_quoted

\* C21: the position starts at 0 and every part yielded moves it strictly
\* forward, each call starting where the last one ended; the position never
\* exceeds the length of the line plus one; next returns None exactly when
\* the position exceeds the length of the line, and then the position is
\* the length plus one and at least one and at most length plus one parts
\* were yielded; nothing is yielded once the position exceeds the length.
C21_PositionAdvancesToLengthPlusOne ==
    /\ [](/\ \A i \in 1..Len(emitted) :
                /\ emitted[i].from < emitted[i].to
                /\ emitted[i].from = (IF i = 1 THEN 0 ELSE emitted[i - 1].to)
          /\ position = (IF emitted = <<>> THEN 0
                         ELSE emitted[Len(emitted)].to)
          /\ position <= Len(line) + 1
          /\ done =>
                /\ position = Len(line) + 1
                /\ Len(emitted) >= 1
                /\ Len(emitted) <= Len(line) + 1)
    /\ [][ /\ done' # done => position > Len(line)
           /\ position > Len(line) => UNCHANGED <<emitted, position>>
           /\ (~done /\ position <= Len(line)) =>
                 (position' > position /\ Len(emitted') = Len(emitted) + 1)
         ]_vars

\* The tokenizer is done with a line of five characters that gave the most
\* parts a line of that length can give, the position moving by one at a
\* time up to six.
C21_Witness ==
    /\ done /\ Len(line) = 5 /\ Len(emitted) = 6 /\ position = 6

\* --------------------------------------------------- completion properties
\* The words typed so far, and the last of them.
TypedWords == parts(cp_line)
LastTyped == TypedWords[Len(TypedWords)]

\* The values the provider returns for the part of template t at the index
\* of the last typed word (none if t has no such part).
ValuesAtLastIndex(t) ==
    LET tv == parts(t)
        n == Len(TypedWords)
        vs == IF n <= Len(tv)
              THEN expand_keyword(cp_kw, tv[n],
                       [i \in 1..n |-> to_string(TypedWords[i])])
              ELSE <<>>
    IN  {vs[i] : i \in 1..Len(vs)}

\* A value as a candidate shows it: in single quotes if it holds a space.
Shown(v) == IF Contains(v, SPACE) THEN QUOTE \o v \o QUOTE ELSE v

\* No two candidates share a display text, and the candidates are in
\* ascending order of display text.
DistinctAndAscending ==
    /\ \A i, j \in 1..Len(cp_pairs) :
          i # j => cp_pairs[i].display # cp_pairs[j].display
    /\ \A i, j \in 1..Len(cp_pairs) :
          i < j => StrLess(cp_pairs[i].display, cp_pairs[j].display)

\* C5 as stated: every candidate's display text is a value the provider
\* returned for the template part at the last typed word's index and starts
\* with the last typed word's raw text; displays are distinct and ascending.
C5_Original ==
    cp_done =>
        /\ \A i \in 1..Len(cp_pairs) :
              \E n \in 1..Len(cp_cmds) :
                  /\ cp_pairs[i].display \in ValuesAtLastIndex(cp_cmds[n])
                  /\ StartsWith(cp_pairs[i].display, LastTyped.slice)
        /\ DistinctAndAscending

\* C5 amended: every candidate's display text is the shown form (wrapped in
\* single quotes when it holds a space, as it is otherwise) of a value that
\* the provider returned for the template part at the last typed word's
\* index and that starts with the last typed word's raw text; displays are
\* distinct and ascending.
C5_CandidatesAreShownValues ==
    cp_done =>
        /\ \A i \in 1..Len(cp_pairs) :
              \E n \in 1..Len(cp_cmds) :
                  \E v \in ValuesAtLastIndex(cp_cmds[n]) :
                      /\ StartsWith(v, LastTyped.slice)
                      /\ cp_pairs[i].display = Shown(v)
        /\ DistinctAndAscending

\* Completion has returned two candidates, one of them for a value that
\* holds a space, after a non-empty partial word.
C5_Witness ==
    /\ cp_done /\ Len(cp_pairs) = 2 /\ LastTyped.slice = "a"
    /\ cp_pairs[1].display = "'a r'" /\ cp_pairs[2].display = "ar"

\* C6: when any typed word is an error part, complete returns no candidate
\* and has not called the provider's expand_keyword.
C6_ErrorSuppressesCompletion ==
    (cp_done /\ \E i \in 1..Len(TypedWords) : TypedWords[i].is_error) =>
        /\ cp_pairs = <<>>
        /\ cp_queries = 0

\* Completion has run on a line whose first word is an error part and whose
\* last word is not.
C6_Witness ==
    /\ cp_done /\ Len(TypedWords) >= 2
    /\ TypedWords[1].is_error /\ ~LastTyped.is_error
    /\ cp_pairs = <<>>

\* The pairs the n-th template alone emits for the typed words.
EmittedBy(n) ==
    PartsLoop(TypedWords, cp_kw, parts(cp_cmds[n]), 0, "",
              [pairs |-> <<>>, queries |-> 0]).pairs

\* The templates that emit a candidate with display text d.
Emitters(d) == {n \in 1..Len(cp_cmds) : d \in DOMAIN EmittedBy(n)}

\* C7 as stated: the candidate kept for a display text is the one of the
\* earliest template that emits it.
C7_Original ==
    (cp_done /\ ~HasError(TypedWords)) =>
        \A i \in 1..Len(cp_pairs) :
            LET d == cp_pairs[i].display
            IN  /\ Emitters(d) # {}
                /\ cp_pairs[i].replacement = EmittedBy(SetMin(Emitters(d)))[d]

\* C7 amended: when several templates emit candidates with the same display
\* text, the candidate kept is the one emitted last: its replacement is that
\* of the latest template in the list that emits the display text.
C7_LastEmittedIsKept ==
    (cp_done /\ ~HasError(TypedWords)) =>
        \A i \in 1..Len(cp_pairs) :
            LET d == cp_pairs[i].display
                last == CHOOSE n \in Emitters(d) : \A m \in Emitters(d) : m <= n
            IN  /\ Emitters(d) # {}
                /\ cp_pairs[i].replacement = EmittedBy(last)[d]

\* Templates "run" and "run <x>" both emit display "run" for the typed "r",
\* with replacements "run" and "run "; completion has returned one of them.
C7_Witness ==
    /\ cp_done /\ cp_cmds = <<"run", "run <x>">> /\ cp_line = "r"
    /\ Len(cp_pairs) = 1 /\ cp_pairs[1].display = "run"
    /\ EmittedBy(1)["run"] = "run" /\ EmittedBy(2)["run"] = "run "

\* The typed words before the last one are accepted by the parts of the
\* template tv at their indexes as C14 words it: a part that is a
\* placeholder accepts any word, any other part accepts its own text.
AcceptedBeforeLast(tv) ==
    /\ Len(tv) >= Len(TypedWords)
    /\ \A i \in 1..(Len(TypedWords) - 1) :
          StartsWith(tv[i].slice, "<") \/ TypedWords[i].slice = tv[i].slice

\* The provider returns no value for a placeholder of the template tv at an
\* index before the last typed word.
EmptyListBeforeLast(tv) ==
    \E i \in 1..(Len(TypedWords) - 1) :
        /\ i <= Len(tv)
        /\ StartsWith(tv[i].slice, "<")
        /\ expand_keyword(cp_kw, tv[i],
               [j \in 1..i |-> to_string(TypedWords[j])]) = <<>>

\* C14 as stated: a placeholder before the last typed word accepts the typed
\* word whatever the provider returns for it, so that every template whose
\* earlier parts accept the typed words gets to its part at the last index:
\* every value of that part that starts with the last typed word is shown
\* among the candidates.
C14_Original ==
    (cp_done /\ ~HasError(TypedWords)) =>
        \A n \in 1..Len(cp_cmds) :
            AcceptedBeforeLast(parts(cp_cmds[n])) =>
                \A v \in ValuesAtLastIndex(cp_cmds[n]) :
                    StartsWith(v, LastTyped.slice) =>
                        \E i \in 1..Len(cp_pairs) :
                            cp_pairs[i].display = Shown(v)

\* The typed words before the i-th, each as to_string gives it and followed
\* by one space.
RECURSIVE RenderedBefore(_)
RenderedBefore(i) ==
    IF i <= 1 THEN ""
    ELSE RenderedBefore(i - 1) \o to_string(TypedWords[i - 1]) \o " "

\* One space if the template t has parts after the last typed word's index.
TrailingSpace(t) == IF Len(parts(t)) > Len(TypedWords) THEN " " ELSE ""

\* The pair (d, r) is the one C15 words for the value v of template t, the
\* value standing in it as text does.
PairOf(d, r, t, text) ==
    /\ d = text
    /\ r = RenderedBefore(Len(TypedWords)) \o text \o TrailingSpace(t)

\* C15 as stated: every candidate a template emits, and every candidate
\* returned, has a value of the provider as its display text, and as its
\* replacement the typed words before the last as rendered, each followed by
\* a space, then that value, then a space if and only if the template has
\* further parts.
C15_Original ==
    (cp_done /\ ~HasError(TypedWords)) =>
        /\ \A n \in 1..Len(cp_cmds) : \A d \in DOMAIN EmittedBy(n) :
              \E v \in ValuesAtLastIndex(cp_cmds[n]) :
                  PairOf(d, EmittedBy(n)[d], cp_cmds[n], v)
        /\ \A i \in 1..Len(cp_pairs) :
              \E n \in 1..Len(cp_cmds) :
                  \E v \in ValuesAtLastIndex(cp_cmds[n]) :
                      PairOf(cp_pairs[i].display, cp_pairs[i].replacement,
                             cp_cmds[n], v)

\* C15 amended: every candidate a template emits, and every candidate
\* returned, has as its display text the shown form of a value of the
\* provider (the value in single quotes when it holds a space, the value
\* itself otherwise), and as its replacement the typed words before the last
\* as rendered, each followed by a space, then that shown form, then a space
\* if and only if the template has further parts.
C15_ShownValueAfterRenderedWords ==
    (cp_done /\ ~HasError(TypedWords)) =>
        /\ \A n \in 1..Len(cp_cmds) : \A d \in DOMAIN EmittedBy(n) :
              \E v \in ValuesAtLastIndex(cp_cmds[n]) :
                  PairOf(d, EmittedBy(n)[d], cp_cmds[n], Shown(v))
        /\ \A i \in 1..Len(cp_pairs) :
              \E n \in 1..Len(cp_cmds) :
                  \E v \in ValuesAtLastIndex(cp_cmds[n]) :
                      PairOf(cp_pairs[i].display, cp_pairs[i].replacement,
                             cp_cmds[n], Shown(v))

\* Completion of a second word has returned two candidates for a template
\* with a further part, one of them for a value that holds a space.
C15_Witness ==
    /\ cp_done /\ cp_line = "r a" /\ cp_cmds = <<"r <x> <y>", "ar">>
    /\ cp_pairs = << [display |-> "'a r'", replacement |-> "r 'a r' "],
                     [display |-> "ar", replacement |-> "r ar "] >>

\* --------------------------------------------------- dispatcher properties
\* A line has been read and split into rc_cmd and rc_args.
Dispatched == rc_pc = "prompt" /\ rc_entered

\* The words of a template, and whether a word is a placeholder.
TemplateWords(t) == LET ps == parts(t) IN [i \in 1..Len(ps) |-> ps[i].slice]
IsPlaceholder(w) == StartsWith(w, "<")

\* C8 as stated: the words of the identifier are, one for one, the leading
\* words of some registered template, each equal to the whole template word
\* and none of them a placeholder.
C8_Original ==
    Dispatched =>
        \E n \in 1..Len(rc_cmds) :
            LET tw == TemplateWords(rc_cmds[n])
            IN  /\ Len(rc_taken) <= Len(tw)
                /\ \A i \in 1..Len(rc_taken) :
                      /\ ~IsPlaceholder(tw[i])
                      /\ rc_taken[i] = tw[i]

\* C8 amended: the command identifier is empty or is, character for
\* character, a prefix of the full text of at least one registered template
\* (its last word may be only the beginning of a template word, and may
\* reach into a placeholder).
C8_IdentifierIsTemplatePrefix ==
    Dispatched =>
        \/ rc_cmd = ""
        \/ \E n \in 1..Len(rc_cmds) :
              /\ Len(rc_cmd) <= Len(rc_cmds[n])
              /\ SubSeq(rc_cmds[n], 1, Len(rc_cmd)) = rc_cmd

\* The line "r <" has been dispatched against "r <r>": the identifier is
\* "r <", which ends inside the placeholder.
C8_Witness ==
    /\ Dispatched /\ rc_cmd = "r <" /\ rc_args = <<>>
    /\ rc_tokens = <<"r", "<">> /\ rc_cmds = <<"r <r>", "rr">>

\* A token shaped like <...>.
Shaped(a) ==
    /\ Len(a) >= 1
    /\ CharAt(a, 0) = "<"
    /\ CharAt(a, Len(a) - 1) = ">"

\* The indexes of the tokens of the line that are shaped like <...>.
ShapedAt == {i \in 1..Len(rc_tokens) : Shaped(rc_tokens[i])}

\* C9: no empty token and no <...>-shaped token is moved into the
\* identifier, which is the moved tokens joined by single spaces; the
\* arguments are the tokens from some token on, and are empty or start with a
\* non-empty token (empty tokens before them were dropped); the first
\* <...>-shaped token and every token after it are arguments.
C9_NoEmptyOrShapedTokenInIdentifier ==
    Dispatched =>
        /\ \A i \in 1..Len(rc_taken) :
              rc_taken[i] # "" /\ ~Shaped(rc_taken[i])
        /\ rc_cmd = join(rc_taken)
        /\ \E k \in 1..(Len(rc_tokens) + 1) :
              /\ rc_args = SubSeq(rc_tokens, k, Len(rc_tokens))
              /\ rc_taken = SelectSeq(SubSeq(rc_tokens, 1, k - 1),
                                      LAMBDA a : a # "")
              /\ ShapedAt # {} => k <= SetMin(ShapedAt)
        /\ rc_args # <<>> => rc_args[1] # ""

\* The line " r <>" has been dispatched: the empty token dropped, "r" moved
\* into the identifier, the <...>-shaped token left as an argument.
C9_Witness ==
    /\ Dispatched /\ rc_tokens = <<"", "r", "<>">>
    /\ rc_cmd = "r" /\ rc_args = <<"<>">>

\* ---------------------------------------------------- read loop properties
\* C12: startup has been called exactly once in every state after the first
\* step and not before, and it is called before anything is typed or read;
\* exit has been called exactly once when read_commands has returned and not
\* before, and it is called only when the loop has ended by Eof or by
\* another readline error; whenever a line is typed, read or interrupted,
\* startup has run and exit has not, and after exit nothing is read and
\* nothing is executed.
C12_HooksOnceAroundTheLoop ==
    /\ [](/\ rc_startups = (IF rc_pc = "init" THEN 0 ELSE 1)
          /\ rc_exits = (IF rc_pc = "exited" THEN 1 ELSE 0)
          /\ rc_event \in {"typed", "line", "interrupted"} =>
                rc_startups = 1 /\ rc_exits = 0
          /\ rc_executed > 0 => rc_event = "line")
    /\ [][ /\ rc_startups' # rc_startups => rc_event = "none"
           /\ rc_exits' # rc_exits =>
                 rc_pc = "ended" /\ rc_event \in {"eof", "error"}
           /\ rc_exits > 0 => UNCHANGED rcvars
         ]_vars

\* The line source failed, the loop ended with the error printed, and
\* read_commands has returned after calling exit once.
C12_Witness ==
    /\ rc_pc = "exited" /\ rc_event = "exit" /\ rc_exits = 1
    /\ rc_startups = 1 /\ rc_report = "Error: readline"

\* The last line read held a part that is an error.
LineHadErrorPart ==
    \E i \in 1..Len(rc_tokens) : StartsWith(rc_tokens[i], "Bad_command")

\* C13: the loop leaves the prompt only in a step in which readline answers
\* Eof or another error; after an interrupted read and after every line
\* read (a line with error parts, a line refused with "Bad command." and a
\* line whose execution failed included) the loop is at the prompt again,
\* in the next call of readline.
C13_LoopEndsOnlyOnEofOrError ==
    /\ [](rc_event \in {"interrupted", "line"} => rc_pc = "prompt")
    /\ [][(rc_pc = "prompt" /\ rc_pc' # "prompt") =>
              rc_event' \in {"eof", "error"}]_vars

\* A line with an error part was read and refused with "Bad command.", and
\* the loop is at the prompt.
C13_Witness ==
    /\ rc_event = "line" /\ LineHadErrorPart /\ rc_report = "Bad command."
    /\ rc_pc = "prompt"

\* The non-empty tokens among the first j tokens of the line, joined by
\* single spaces: the identifier that taking all of them would give.
JoinedUpTo(j) == join(SelectSeq(SubSeq(rc_tokens, 1, j), LAMBDA a : a # ""))

\* Some template's full text starts with p.
SomeTemplateStartsWith(p) ==
    \E n \in 1..Len(rc_cmds) :
        /\ Len(p) <= Len(rc_cmds[n])
        /\ SubSeq(rc_cmds[n], 1, Len(p)) = p

\* C16: there is a token index k at which consumption stops.  Every
\* non-empty token before k is not <...>-shaped, passes the test (some
\* template's full text starts with the identifier so far joined to it by
\* one space) and is taken; the token at k, if any, is non-empty and is
\* <...>-shaped or fails the test; the arguments are the tokens from k on
\* in their order, the identifier is the taken tokens joined by single
\* spaces, and a non-empty identifier is a prefix of some template.
C16_TakenExactlyWhileSomeTemplateStartsWith ==
    Dispatched =>
        \E k \in 1..(Len(rc_tokens) + 1) :
            /\ \A j \in 1..(k - 1) :
                  rc_tokens[j] # "" =>
                      /\ ~Shaped(rc_tokens[j])
                      /\ SomeTemplateStartsWith(JoinedUpTo(j))
            /\ k <= Len(rc_tokens) =>
                  /\ rc_tokens[k] # ""
                  /\ \/ Shaped(rc_tokens[k])
                     \/ ~SomeTemplateStartsWith(JoinedUpTo(k))
            /\ rc_taken = SelectSeq(SubSeq(rc_tokens, 1, k - 1),
                                    LAMBDA a : a # "")
            /\ rc_args = SubSeq(rc_tokens, k, Len(rc_tokens))
            /\ rc_cmd = JoinedUpTo(k - 1)
            /\ rc_cmd # "" => SomeTemplateStartsWith(rc_cmd)

\* The line "r" has been dispatched against "run" and "help": the
\* identifier is "r" and there are no arguments.
C16_Witness ==
    /\ Dispatched /\ rc_cmds = <<"run", "help">> /\ rc_tokens = <<"r">>
    /\ rc_cmd = "r" /\ rc_args = <<>>

\* C17: after a line is read, execute_line has been called at most once and
\* never with an empty cmd: with an empty cmd and arguments left, "Bad
\* command." is printed and execute_line is not called; with an empty cmd
\* and no arguments, nothing is printed and execute_line is not called; with
\* any other cmd, execute_line is called exactly once, and nothing but its
\* error is printed.
C17_EmptyIdentifierIsNeverExecuted ==
    rc_event = "line" =>
        /\ (rc_cmd = "" /\ Len(rc_args) > 0) =>
              rc_executed = 0 /\ rc_report = "Bad command."
        /\ (rc_cmd = "" /\ Len(rc_args) = 0) =>
              rc_executed = 0 /\ rc_report = ""
        /\ rc_cmd # "" =>
              rc_executed = 1 /\ rc_report \in {"", "execute_line error"}

\* A line whose only token is <...>-shaped was read: the cmd is empty, the
\* token is left as an argument, "Bad command." is printed and nothing is
\* executed.
C17_Witness ==
    /\ rc_event = "line" /\ rc_cmd = "" /\ rc_args = <<"<r>">>
    /\ rc_report = "Bad command." /\ rc_executed = 0

\* -------------------------------------------------------- pager properties
\* The layout as the specification words it (columns > 0).
Columns == pg_term_w \div (pg_max_line + 2)
TotalRows ==
    IF Len(pg_lines) % Columns = 0 THEN Len(pg_lines) \div Columns
    ELSE Len(pg_lines) \div Columns + 1
VisibleRows == pg_term_h - 1

\* The lines the last pass printed, in the order printed.
PrintedItems ==
    LET ev == SelectSeq(pg_screen, LAMBDA e : e.item # 0)
    IN  [i \in 1..Len(ev) |-> ev[i].item]

\* The line breaks of the last pass come exactly after every line that ends
\* a row of Columns lines, and after the last line.
RowMajor ==
    LET ev == SelectSeq(pg_screen, LAMBDA e : e.item # 0)
        n == Len(ev)
    IN  /\ \A i \in 1..n : ev[i].nl <=> (i % Columns = 0)
        /\ Len(pg_screen) = n + (IF n % Columns # 0 THEN 1 ELSE 0)
        /\ n % Columns # 0 => pg_screen[Len(pg_screen)].nl

\* C10: when the total rows are at most the visible rows, print_columns
\* returns after one pass in which every line is printed exactly once, row
\* by row in the order given; the --More-- prompt is never printed and no
\* key is read.
C10_UnpagedPrintsOnce ==
    (pg_pc \notin {"call", "panic"} /\ TotalRows <= VisibleRows) =>
        /\ pg_pc = "returned"
        /\ pg_paints = 1
        /\ PrintedItems = [i \in 1..Len(pg_lines) |-> i]
        /\ RowMajor
        /\ pg_prompts = 0
        /\ pg_keys = 0
        /\ ~pg_erased

\* print_columns has returned from a call with three or more lines in two or
\* more columns that fill every visible row, the last row not full.
C10_Witness ==
    /\ pg_pc = "returned" /\ Columns >= 2 /\ Len(pg_lines) >= 3
    /\ TotalRows = VisibleRows /\ Len(pg_lines) % Columns # 0
    /\ pg_paints = 1

\* wait_for_key has just returned: this step read a key.
KeyRead == pg_keys' = pg_keys + 1

\* C11: from any top row, the step in which the key read is 'q', Ctrl-C or
\* Escape prints nothing (no pass, no prompt), keeps the top row, erases the
\* --More-- prompt and makes print_columns return; once print_columns has
\* returned, no pass is printed and no key is read any more.
C11_AbortKeyStopsThePager ==
    [][ /\ (KeyRead /\ pg_key' \in {"q", "CtrlC", "Escape"}) =>
              /\ pg_pc' = "returned"
              /\ pg_erased'
              /\ UNCHANGED <<pg_screen, pg_paints, pg_prompts, pg_position>>
        /\ pg_pc = "returned" =>
              UNCHANGED <<pg_pc, pg_screen, pg_paints, pg_prompts, pg_keys,
                          pg_key, pg_erased>>
      ]_vars

\* Escape was read as the third key, after two passes, at a top row other
\* than the first, and print_columns has returned with the prompt erased.
C11_Witness ==
    /\ pg_pc = "returned" /\ pg_erased /\ pg_key = "Escape"
    /\ pg_keys = 3 /\ pg_paints = 2 /\ pg_position > 0

\* print_columns is paginating on a terminal with at least one visible row.
Paginating ==
    pg_pc = "wait" /\ VisibleRows >= 1 /\ TotalRows > VisibleRows

\* The last top row: the one from which the last row is the last visible.
LastTop == TotalRows - VisibleRows

\* The top row after a key as C19 words it.
TopRowAfter(key, top) ==
    CASE key \in {"PageUp", "b"} -> Max(0, top - VisibleRows)
      [] key \in {" ", "PageDown"} -> Min(LastTop, top + VisibleRows)
      [] key = "ArrowUp" -> Max(0, top - 1)
      [] key \in {"Enter", "ArrowDown"} -> Min(LastTop, top + 1)
      [] key = "Home" -> 0
      [] key = "End" -> LastTop
      [] OTHER -> top

\* The rows of the last pass: its line breaks.
RowsShown == Len(SelectSeq(pg_screen, LAMBDA e : e.nl))

\* C19: while print_columns is paginating with at least one visible row, the
\* top row is within 0 .. total rows - visible rows, and the screen painted
\* last shows exactly the visible number of rows, which are the rows from
\* the top row on; a key moves the top row as worded (PageUp and 'b' one
\* screenful back and Space and PageDown one forward, ArrowUp one row back
\* and Enter and ArrowDown one forward, all kept within the bounds, Home to
\* 0 and End to total rows - visible rows), and no pass fails.
C19_TopRowStaysWithinBounds ==
    /\ [](Paginating =>
            /\ pg_position \in 0..LastTop
            /\ RowsShown = VisibleRows
            /\ PrintedItems =
                  [i \in 1..(Min((pg_position + VisibleRows) * Columns,
                                 Len(pg_lines)) - pg_position * Columns)
                      |-> pg_position * Columns + i])
    /\ [][(Paginating /\ KeyRead) =>
            /\ pg_position' = TopRowAfter(pg_key', pg_position)
            /\ pg_pc' # "panic"]_vars

\* Space was read at the first top row with two visible rows out of three:
\* the top row moved forward by less than a screenful, to the last top row,
\* and the screen was painted again.
C19_Witness ==
    /\ Paginating /\ pg_key = " " /\ pg_keys = 1 /\ pg_paints = 2
    /\ VisibleRows = 2 /\ TotalRows = 3 /\ pg_position = 1

\* The lines of the last pass that are not the last of their row, each with
\* the width it was printed in.
PaddedItems ==
    SelectSeq(pg_screen, LAMBDA e : e.item # 0 /\ ~e.nl)

\* The rows, the prompt and the line breaks of the layout of Columns
\* columns and TotalRows rows: rows of Columns lines, the prompt exactly when
\* there are more rows than visible ones, and otherwise TotalRows rows.
LaidOutInColumns ==
    /\ RowMajor
    /\ pg_prompts > 0 <=> TotalRows > VisibleRows
    /\ TotalRows <= VisibleRows => RowsShown = TotalRows

\* C20 as stated: whenever a pass has been printed, the lines are laid out
\* in term_w / (max_line + 2) columns and ceil(n / columns) rows, and every
\* line that is not the last of its row is printed in exactly
\* max_line + 2 characters.
C20_Original ==
    pg_pc \in {"wait", "returned"} =>
        /\ LaidOutInColumns
        /\ \A i \in 1..Len(PaddedItems) :
              PaddedItems[i].width = pg_max_line + 2

\* C20 amended: the column count is term_w / (max_line + 2).  When it is 0,
\* print_columns fails on the division before anything is printed.
\* Otherwise the lines are laid out in that many columns and
\* ceil(n / columns) rows, and every line that is not the last of its row
\* is padded to the column width term_w / columns, which is at least
\* max_line + 2; a line longer than the column width is printed as it is.
C20_PaddedToTerminalWidthOverColumns ==
    pg_pc # "call" =>
        IF Columns = 0
        THEN pg_pc = "panic" /\ pg_paints = 0 /\ pg_screen = <<>>
        ELSE /\ LaidOutInColumns
             /\ pg_term_w \div Columns >= pg_max_line + 2
             /\ \A i \in 1..Len(PaddedItems) :
                   PaddedItems[i].width =
                       Max(pg_lines[PaddedItems[i].item],
                           pg_term_w \div Columns)

\* A pass was printed in two columns of four characters for lines of at most
\* one character: a line of one character was padded to four characters,
\* not to three.
C20_Witness ==
    /\ pg_pc \in {"wait", "returned"}
    /\ pg_term_w = 8 /\ pg_max_line = 1 /\ Columns = 2
    /\ \E i \in 1..Len(PaddedItems) :
          /\ pg_lines[PaddedItems[i].item] = 1
          /\ PaddedItems[i].width = 4

\* C22 as stated: in every call of print_columns the column count is at
\* least 1, so that the call does not fail on a division by it.
C22_Original ==
    pg_pc # "call" =>
        /\ Columns >= 1
        /\ ~(pg_pc = "panic" /\ pg_paints = 0)

\* The output of the call at hand is paginated: a pass has been printed and
\* there are more rows than visible ones.
Paginated ==
    pg_pc # "call" /\ Columns >= 1 /\ TotalRows > VisibleRows

\* C23 as stated: when the output is paginated, print_columns neither fails
\* nor returns except in the step that reads 'q', Ctrl-C or Escape; a key
\* other than these that leaves the top row where it is (a navigation key
\* at its bound, or an unrecognised key) causes no pass and no prompt, and
\* print_columns waits for the next key.
C23_Original ==
    /\ [](Paginated => pg_pc \in {"wait", "returned"})
    /\ [](Paginated /\ pg_pc = "returned" =>
             pg_keys >= 1 /\ pg_key \in {"q", "CtrlC", "Escape"})
    /\ [][(Paginated /\ KeyRead /\ pg_key' \notin {"q", "CtrlC", "Escape"}
              /\ pg_position' = pg_position) =>
             /\ pg_pc' = "wait"
             /\ UNCHANGED <<pg_screen, pg_paints, pg_prompts>>]_vars

=============================================================================
